---- MODULE Spec2Model ----
(***************************************************************************)
(* hetvec: a heterogeneous vector.  hetvec<T1,...,TN> is a chain of        *)
(* classes, hetvec<Ti,...,TN> deriving from hetvec<Ti+1,...,TN> and ending *)
(* in hetvec<>; each level holds one std::vector<Ti> named v.  The model   *)
(* indexes the levels 1..N (level N+1 is hetvec<>) and follows the         *)
(* recursion of every member function level by level.                      *)
(***************************************************************************)
EXTENDS Integers, Sequences, FiniteSets, TLC

\* The type list of the collection of example.cpp: hetvec<Dog, Car, Foo, Bar>.
TypeList == <<"Dog", "Car", "Foo", "Bar">>

N == Len(TypeList)

Types == {TypeList[i] : i \in 1..N}

\* Most elements the caller hands in between two clears.
MaxSize == 4

\* Most arguments of one constructor call.
MaxArgs == 3

\* Latest handler invocation at which a throwing visitor throws.
MaxFail == 5

\* The caller numbers the elements it hands in, from 1 again after each clear:
\* an element is its static type and that number, so any two can be told apart.
Tagged(ts) == [i \in 1..Len(ts) |-> [ty |-> ts[i], val |-> i]]

RECURSIVE SeqsUpTo(_, _)
SeqsUpTo(S, n) ==
    IF n = 0 THEN {<<>>}
    ELSE LET shorter == SeqsUpTo(S, n - 1)
         IN  shorter \cup {Append(s, x) : s \in {t \in shorter : Len(t) = n - 1}, x \in S}

\* The static types of the arguments of a constructor call.
ArgTypes == SeqsUpTo(Types, MaxArgs)

\* The vectors of a collection whose every level was default-constructed.
EmptyChain == [l \in 1..N |-> <<>>]

(***************************************************************************)
(* Visitors.  A visitor is the set of ordered type pairs it declares an    *)
(* exact f(const T&, const U&) for, its template f being the fallback;     *)
(* throwAt = k > 0 makes its k-th invoked handler throw.                   *)
(***************************************************************************)
MyCustomBehaviourExact == {<<"Dog", "Dog">>, <<"Dog", "Car">>, <<"Bar", "Foo">>}

MyCustomBehaviour == [exact |-> MyCustomBehaviourExact, throwAt |-> 0]

\* A visitor that declares the template f alone.
OnlyFallback == [exact |-> {}, throwAt |-> 0]

\* MyCustomBehaviour with handlers that throw at the k-th invocation of a traversal.
Throwing(k) == [exact |-> MyCustomBehaviourExact, throwAt |-> k]

Visitors == {MyCustomBehaviour, OnlyFallback} \cup {Throwing(k) : k \in 1..MaxFail}

\* The handler named by the template f of a visitor.
Fallback == <<>>

VARIABLES
    status,  \* "unbuilt", "live", or "ill_formed" (the constructor call does not compile)
    v,       \* v[l]: the std::vector of level l
    op,      \* the operation that produced this state
    args,    \* the arguments of the constructor call, while op = "construct"
    fcns,    \* the visitor of the perform call, while op = "perform"
    log,     \* the handler invocations of the perform call, in order
    exc,     \* TRUE iff the perform call left by an exception
    next,    \* the number the caller gives the next element it hands in
    ins,     \* history: per type, the elements handed in since the last clear
    cleared, \* history: TRUE once clear was called
    fresh,   \* history: a default-constructed collection given every push_back since the last clear
    freshLog \* history: the invocations of the same perform call on fresh

vars == <<status, v, op, args, fcns, log, exc, next, ins, cleared, fresh, freshLog>>

(***************************************************************************)
(* Constructors.  hetvec_ctor(l, as) is the constructor of level l that    *)
(* overload resolution selects for the argument list as, run to its end:   *)
(* ok = FALSE when some level has no constructor taking what is left (the  *)
(* call is ill-formed), else v holds the vectors of levels l..N.           *)
(***************************************************************************)
RECURSIVE hetvec_ctor(_, _)
hetvec_ctor(l, as) ==
    IF l > N
    THEN \* hetvec<> declares no constructor: only hetvec<>() exists
         [ok |-> as = <<>>, v |-> EmptyChain]
    ELSE IF as = <<>>
    THEN \* explicit hetvec() { }
         hetvec_ctor(l + 1, <<>>)
    ELSE IF Head(as).ty = TypeList[l]
    THEN \* hetvec(const T& t, const Us&... us) : hetvec<T, Ts...>(us...) { v.push_back(t); }
         LET r == hetvec_ctor(l, Tail(as))
         IN  [ok |-> r.ok, v |-> [r.v EXCEPT ![l] = Append(@, Head(as).val)]]
    ELSE \* hetvec(const Us&... us) : hetvec<Ts...>(us...) { }
         hetvec_ctor(l + 1, as)

(***************************************************************************)
(* push_back, size, clear, empty.                                          *)
(***************************************************************************)
RECURSIVE push_back(_, _, _, _)
push_back(l, c, ty, x) ==
    IF l > N THEN c
    ELSE IF TypeList[l] = ty
    THEN [c EXCEPT ![l] = Append(@, x)]
    ELSE push_back(l + 1, c, ty, x)

\* size() that leaves out the levels below.
size_own(l, c) == IF l > N THEN 0 ELSE Len(c[l])

RECURSIVE size(_, _)
size(l, c) == IF l > N THEN 0 ELSE Len(c[l]) + size(l + 1, c)

\* clear() that leaves out the levels below.
clear_own(l, c) == IF l > N THEN c ELSE [c EXCEPT ![l] = <<>>]

RECURSIVE clear(_, _)
clear(l, c) == IF l > N THEN c ELSE clear(l + 1, [c EXCEPT ![l] = <<>>])

empty(c) == size(1, c) = 0

(***************************************************************************)
(* perform.  A traversal carries st = [v, fcns, log, exc]: the vectors,    *)
(* the visitor, the handler invocations made so far, and whether a handler *)
(* has thrown.  No level catches, so once exc is set nothing more runs.    *)
(***************************************************************************)
\* The reference (const T&) to element i of the vector of level l.
Ref(c, l, i) == [ty |-> TypeList[l], ix |-> i, val |-> c[l][i]]

\* Overload resolution that also takes a handler declared for (U, T).
Select_either_order(fc, T, U) ==
    IF <<T, U>> \in fc.exact THEN <<T, U>>
    ELSE IF <<U, T>> \in fc.exact THEN <<U, T>>
    ELSE Fallback

\* Overload resolution of fcns.f(a1, a2) for static types T, U.
Select(fc, T, U) == IF <<T, U>> \in fc.exact THEN <<T, U>> ELSE Fallback

\* A call site that catches what the handler throws and goes on.
Call_resuming(st, a1, a2) ==
    [st EXCEPT !.log = Append(@, [a1 |-> a1, a2 |-> a2, h |-> Select(st.fcns, a1.ty, a2.ty)]),
               !.exc = st.exc \/ (st.fcns.throwAt = Len(st.log) + 1)]

\* fcns.f(a1, a2)
Call(st, a1, a2) ==
    IF st.exc THEN st
    ELSE [st EXCEPT !.log = Append(@, [a1 |-> a1, a2 |-> a2, h |-> Select(st.fcns, a1.ty, a2.ty)]),
                    !.exc = (st.fcns.throwAt = Len(st.log) + 1)]

\* f that leaves out the mirrored call.
f_one_way(st, a1, a2) == Call(st, a1, a2)

\* f that makes the mirrored call first.
f_mirror_first(st, a1, a2) ==
    IF a1.ty = a2.ty
    THEN Call(st, a1, a2)
    ELSE Call(Call(st, a2, a1), a1, a2)

\* hetvec<>::f(const T&, const U&, const Fcns&) and f(const T&, const T&, const Fcns&)
f(st, a1, a2) ==
    IF a1.ty = a2.ty
    THEN Call(st, a1, a2)
    ELSE Call(Call(st, a1, a2), a2, a1)

\* std::for_each(v.begin(), v.end(), [..](const T& t) { hetvec<Ts...>::f(t, u, fcns); }), from element i on
RECURSIVE forward_each(_, _, _, _)
forward_each(l, st, u, i) ==
    IF i > Len(st.v[l]) THEN st
    ELSE forward_each(l, f(st, Ref(st.v, l, i), u), u, i + 1)

\* perform(const U& u, const Fcns& fcns) of level l
RECURSIVE perform_fwd(_, _, _)
perform_fwd(l, st, u) ==
    IF l > N THEN st
    ELSE perform_fwd(l + 1, forward_each(l, st, u, 1), u)

\* for(size_t j = ...; j < v.size(); j++) hetvec<Ts...>::f(v[i], v[j], fcns);  (indices from 1)
RECURSIVE same_inner(_, _, _, _)
same_inner(l, st, i, j) ==
    IF j > Len(st.v[l]) THEN st
    ELSE same_inner(l, f(st, Ref(st.v, l, i), Ref(st.v, l, j)), i, j + 1)

\* The outer loop with the inner loop from j = i.
RECURSIVE same_outer_from_i(_, _, _)
same_outer_from_i(l, st, i) ==
    IF i > Len(st.v[l]) THEN st
    ELSE same_outer_from_i(l, same_inner(l, st, i, i), i + 1)

\* for(size_t i = ...; i < v.size(); i++) { the inner loop from j = i+1 }
RECURSIVE same_outer(_, _, _)
same_outer(l, st, i) ==
    IF i > Len(st.v[l]) THEN st
    ELSE same_outer(l, same_inner(l, st, i, i + 1), i + 1)

\* std::for_each(v.begin(), v.end(), [..](const T& t) { hetvec<Ts...>::perform(t, fcns); }), from element i on
RECURSIVE each_to_parent(_, _, _)
each_to_parent(l, st, i) ==
    IF i > Len(st.v[l]) THEN st
    ELSE each_to_parent(l, perform_fwd(l + 1, st, Ref(st.v, l, i)), i + 1)

\* perform(const Fcns& fcns) of level l
RECURSIVE perform(_, _)
perform(l, st) ==
    IF l > N THEN st
    ELSE perform(l + 1, each_to_parent(l, same_outer(l, st, 1), 1))

\* A traversal that moves the elements out of the vectors it walks.
Traverse_draining(c, fc) ==
    [perform(1, [v |-> c, fcns |-> fc, log |-> <<>>, exc |-> FALSE]) EXCEPT !.v = EmptyChain]

\* hv.perform(fc) on a collection with vectors c
Traverse(c, fc) == perform(1, [v |-> c, fcns |-> fc, log |-> <<>>, exc |-> FALSE])

(***************************************************************************)
(* The caller: one constructor call, then any calls of push_back, clear    *)
(* and perform.                                                            *)
(***************************************************************************)
CountOf(as, ty) == Cardinality({i \in 1..Len(as) : as[i].ty = ty})

Init ==
    /\ status = "unbuilt"
    /\ v = EmptyChain
    /\ op = "none"
    /\ args = <<>>
    /\ fcns = OnlyFallback
    /\ log = <<>>
    /\ exc = FALSE
    /\ next = 1
    /\ ins = [t \in Types |-> 0]
    /\ cleared = FALSE
    /\ fresh = EmptyChain
    /\ freshLog = <<>>

\* hetvec<Dog, Car, Foo, Bar> hv {as...};  with as of the static types ts
Construct(ts) ==
    /\ status = "unbuilt"
    /\ LET r == hetvec_ctor(1, Tagged(ts))
       IN  /\ status' = IF r.ok THEN "live" ELSE "ill_formed"
           /\ v' = IF r.ok THEN r.v ELSE EmptyChain
    /\ ins' = [t \in Types |-> CountOf(Tagged(ts), t)]
    /\ next' = Len(ts) + 1
    /\ op' = "construct"
    /\ args' = Tagged(ts)
    /\ UNCHANGED <<fcns, log, exc, cleared, fresh, freshLog>>

\* hv.push_back(T{next});
Push(ty) ==
    /\ status = "live"
    /\ v' = push_back(1, v, ty, next)
    /\ next' = next + 1
    /\ ins' = [ins EXCEPT ![ty] = @ + 1]
    /\ fresh' = IF cleared THEN push_back(1, fresh, ty, next) ELSE fresh
    /\ op' = "push_back"
    /\ args' = <<>>
    /\ fcns' = OnlyFallback
    /\ log' = <<>>
    /\ exc' = FALSE
    /\ freshLog' = <<>>
    /\ UNCHANGED <<status, cleared>>

PushBack(ty) == next <= MaxSize /\ Push(ty)

\* hv.clear();
Clear ==
    /\ status = "live"
    /\ v' = clear(1, v)
    /\ next' = 1
    /\ ins' = [t \in Types |-> 0]
    /\ cleared' = TRUE
    /\ fresh' = hetvec_ctor(1, <<>>).v
    /\ op' = "clear"
    /\ args' = <<>>
    /\ fcns' = OnlyFallback
    /\ log' = <<>>
    /\ exc' = FALSE
    /\ freshLog' = <<>>
    /\ UNCHANGED status

\* hv.perform(fc);
Perform(fc) ==
    /\ status = "live"
    /\ LET r == Traverse(v, fc)
           s == Traverse(fresh, fc)
       IN  /\ v' = r.v
           /\ log' = r.log
           /\ exc' = r.exc
           /\ fresh' = IF cleared THEN s.v ELSE fresh
           /\ freshLog' = IF cleared THEN s.log ELSE <<>>
    /\ fcns' = fc
    /\ op' = "perform"
    /\ args' = <<>>
    /\ UNCHANGED <<status, next, ins, cleared>>

Next ==
    \/ \E ts \in ArgTypes : Construct(ts)
    \/ \E ty \in Types : PushBack(ty)
    \/ Clear
    \/ \E fc \in Visitors : Perform(fc)

Spec == Init /\ [][Next]_vars

(***************************************************************************)
(* The caller of example.cpp: main constructs hv {Dog(), Dog(), Car(),     *)
(* Bar()}, pushes a Foo, performs, clears, and performs again.  The runs   *)
(* of SpecExample are those of callers that hand in at most what main      *)
(* hands in, in any order, by the constructor call of main or by           *)
(* push_back.                                                              *)
(***************************************************************************)
ExampleArgTypes == {<<>>, <<"Dog", "Dog", "Car", "Bar">>}

ExampleContents == [t \in Types |-> IF t = "Dog" THEN 2 ELSE 1]

ExamplePushBack(ty) == ins[ty] < ExampleContents[ty] /\ Push(ty)

ExampleNext ==
    \/ \E ts \in ExampleArgTypes : Construct(ts)
    \/ \E ty \in Types : ExamplePushBack(ty)
    \/ Clear
    \/ \E fc \in Visitors : Perform(fc)

SpecExample == Init /\ [][ExampleNext]_vars

(***************************************************************************)
(* Properties.                                                             *)
(***************************************************************************)
\* Element p of partition i as a handler sees it.
El(i, p) == [ty |-> TypeList[i], ix |-> p, val |-> v[i][p]]

\* How often the last traversal invoked a handler with arguments (a, b).
Occ(a, b) == Cardinality({k \in 1..Len(log) : log[k].a1 = a /\ log[k].a2 = b})

\* How often the last traversal invoked a handler with argument types (T, U).
OccTypes(T, U) == Cardinality({k \in 1..Len(log) : log[k].a1.ty = T /\ log[k].a2.ty = U})

\* How often the last traversal ran handler h.
Runs(h) == Cardinality({k \in 1..Len(log) : log[k].h = h})

\* The last operation was a traversal that returned normally.
Completed == status = "live" /\ op = "perform" /\ ~exc

RECURSIVE Concat(_)
Concat(ss) == IF ss = <<>> THEN <<>> ELSE Head(ss) \o Concat(Tail(ss))

RECURSIVE SumOver(_, _)
SumOver(g, S) ==
    IF S = {} THEN 0
    ELSE LET x == CHOOSE y \in S : TRUE IN g[x] + SumOver(g, S \ {x})

\* C1: after a traversal that returned normally, for every two distinct
\* declared types Ti, Tj, a handler was invoked exactly once with (u, w) for
\* every u of Pi and w of Pj (hence, i and j ranging over ordered pairs, also
\* exactly once with (w, u)), and the invocations with argument types
\* (Ti, Tj) number exactly mi*mj.
CrossCoverage ==
    Completed =>
        \A i, j \in 1..N :
            i # j =>
                /\ \A p \in 1..Len(v[i]), q \in 1..Len(v[j]) : Occ(El(i, p), El(j, q)) = 1
                /\ OccTypes(TypeList[i], TypeList[j]) = Len(v[i]) * Len(v[j])

CrossCoverageWitness ==
    /\ Completed
    /\ Len(v[1]) = 2
    /\ Len(v[3]) = 2
    /\ Len(log) = 10

\* C2: after a traversal that returned normally, for every declared type Ti a
\* handler was invoked with (Pi[p], Pi[q]) exactly once when p < q and never
\* when p >= q, so the same-type invocations number exactly C(mi, 2).
IntraCoverage ==
    Completed =>
        \A i \in 1..N :
            /\ \A p, q \in 1..Len(v[i]) :
                   Occ(El(i, p), El(i, q)) = IF p < q THEN 1 ELSE 0
            /\ 2 * OccTypes(TypeList[i], TypeList[i]) = Len(v[i]) * (Len(v[i]) - 1)

IntraCoverageWitness ==
    /\ Completed
    /\ \E i \in 1..N : Len(v[i]) = 3 /\ OccTypes(TypeList[i], TypeList[i]) = 3

\* The contents example.cpp traverses: 2 Dog, 1 Car, 1 Foo, 1 Bar.
ExampleReached == \A i \in 1..N : Len(v[i]) = ExampleContents[TypeList[i]]

\* C3: every invocation with argument types (T, U) runs the handler the
\* visitor declares for exactly (T, U) if there is one and the fallback
\* otherwise; so MyCustomBehaviour over 2 Dog, 1 Car, 1 Foo, 1 Bar runs its
\* (Dog,Dog) handler once, its (Dog,Car) handler twice, its (Bar,Foo)
\* handler once, and the fallback for the other 15 invocations.
HandlerSelection ==
    (status = "live" /\ op = "perform") =>
        /\ \A k \in 1..Len(log) :
               log[k].h = IF <<log[k].a1.ty, log[k].a2.ty>> \in fcns.exact
                          THEN <<log[k].a1.ty, log[k].a2.ty>>
                          ELSE Fallback
        /\ (ExampleReached /\ fcns = MyCustomBehaviour) =>
               /\ Runs(<<"Dog", "Dog">>) = 1
               /\ Runs(<<"Dog", "Car">>) = 2
               /\ Runs(<<"Bar", "Foo">>) = 1
               /\ Runs(Fallback) = 15
               /\ Len(log) = 19

HandlerSelectionWitness ==
    /\ Completed
    /\ ExampleReached
    /\ fcns = MyCustomBehaviour
    /\ Runs(<<"Dog", "Car">>) = 2

\* The payloads of the arguments of type TypeList[i], in argument order.
ArgsOfType(i) ==
    LET mine == SelectSeq(args, LAMBDA a : a.ty = TypeList[i])
    IN  [k \in 1..Len(mine) |-> mine[k].val]

Range(q) == {q[k] : k \in 1..Len(q)}

\* C4: a constructor call whose arguments are all of declared types, in any
\* order of types, is accepted and leaves in every partition Pi exactly the
\* arguments of type Ti.
ConstructAcceptsAnyOrder ==
    op = "construct" =>
        /\ status = "live"
        /\ \A i \in 1..N :
               /\ Len(v[i]) = Len(ArgsOfType(i))
               /\ Range(v[i]) = Range(ArgsOfType(i))

\* C5: in a live collection every partition holds as many elements as were
\* handed in for its type since the last clear, size() is the sum of these
\* counts, which is the number of elements handed in since the last clear,
\* and empty() holds exactly when size() is 0.
SizeInvariant ==
    status = "live" =>
        /\ \A i \in 1..N : Len(v[i]) = ins[TypeList[i]]
        /\ size(1, v) = SumOver(ins, Types)
        /\ size(1, v) = next - 1
        /\ empty(v) <=> size(1, v) = 0

SizeInvariantWitness ==
    /\ status = "live"
    /\ cleared
    /\ op = "push_back"
    /\ size(1, v) = 3
    /\ Len(v[2]) = 2
    /\ Len(v[4]) = 1

\* C6: right after clear every partition is empty, size() is 0 and empty()
\* holds; a traversal made before anything is handed in again invokes no
\* handler; and from the clear on the collection equals, after every
\* operation, a default-constructed one given the same operations, with the
\* same size(), empty() and handler invocations.
ClearResets ==
    /\ (status = "live" /\ op = "clear") =>
           /\ \A i \in 1..N : v[i] = <<>>
           /\ size(1, v) = 0
           /\ empty(v)
    /\ (status = "live" /\ cleared /\ next = 1 /\ op = "perform") => log = <<>>
    /\ (status = "live" /\ cleared) =>
           /\ v = fresh
           /\ size(1, v) = size(1, fresh)
           /\ empty(v) = empty(fresh)
           /\ op = "perform" => log = freshLog

ClearResetsWitness ==
    /\ status = "live"
    /\ cleared
    /\ op = "perform"
    /\ size(1, v) = 3
    /\ Len(log) >= 3

\* C7: a traversal leaves every partition as it was, so size() and empty()
\* are as before it, and a traversal made right after another with the same
\* visitor makes the same invocations.
PerformFrame ==
    [][op' = "perform" =>
           /\ v' = v
           /\ size(1, v') = size(1, v)
           /\ empty(v') = empty(v)
           /\ (op = "perform" /\ fcns' = fcns) => log' = log]_vars

PerformFrameWitness ==
    /\ Completed
    /\ size(1, v) = 4
    /\ Len(log) >= 6

\* The invocations a traversal of c with the handlers of fc makes when none throws.
Unfailing(c, fc) == Traverse(c, [fc EXCEPT !.throwAt = 0]).log

\* C8: when the k-th invoked handler of a traversal throws, the traversal
\* leaves by that exception having made exactly the first k invocations of
\* the traversal without the failure, and the partitions are unchanged.
HandlerFailure ==
    [][(op' = "perform" /\ fcns'.throwAt > 0 /\ fcns'.throwAt <= Len(Unfailing(v, fcns'))) =>
           /\ exc'
           /\ log' = SubSeq(Unfailing(v, fcns'), 1, fcns'.throwAt)
           /\ v' = v]_vars

HandlerFailureWitness ==
    /\ status = "live"
    /\ op = "perform"
    /\ exc
    /\ Len(log) = 3
    /\ Len(Unfailing(v, fcns)) > 3

\* The calls of one traversal as pairs of arguments.
Pairs(calls) == [k \in 1..Len(calls) |-> <<calls[k].a1, calls[k].a2>>]

\* (a) of C9: the same-type calls of partition i, in lexicographic (p, q) order.
SameCalls(i) ==
    Concat([p \in 1..Len(v[i]) |->
               [d \in 1..(Len(v[i]) - p) |-> <<El(i, p), El(i, p + d)>>]])

\* (b) of C9: for each u of partition i, each later partition j, each w of it: (w, u), (u, w).
CrossCalls(i) ==
    Concat([p \in 1..Len(v[i]) |->
               Concat([d \in 1..(N - i) |->
                          Concat([q \in 1..Len(v[i + d]) |->
                                     <<(<<El(i + d, q), El(i, p)>>), (<<El(i, p), El(i + d, q)>>)>>])])])

ReferenceOrder == Concat([i \in 1..N |-> SameCalls(i) \o CrossCalls(i)])

\* C9: the invocations of a traversal that returned normally are, in order,
\* the reference enumeration: for each partition in declared order its
\* same-type calls in lexicographic order, then for each of its elements, each
\* later partition and each element w of that, (w, u) followed by (u, w).
TraversalOrder == Completed => Pairs(log) = ReferenceOrder

TraversalOrderWitness ==
    /\ Completed
    /\ Len(v[1]) = 2
    /\ Len(v[2]) = 1
    /\ Len(v[4]) = 1

\* The vectors after constructing empty and calling push_back for each of as in turn.
RECURSIVE PushedInTurn(_, _)
PushedInTurn(c, as) ==
    IF as = <<>> THEN c
    ELSE PushedInTurn(push_back(1, c, Head(as).ty, Head(as).val), Tail(as))

\* C10: an accepted constructor call stores arguments of one type in argument
\* order, as constructing empty and calling push_back for each in turn does,
\* and a following traversal hands a same-type pair to its handler with the
\* earlier argument first.
ConstructKeepsArgumentOrder ==
    (op = "construct" /\ status = "live") =>
        /\ \A i \in 1..N : v[i] = ArgsOfType(i)
        /\ v = PushedInTurn(hetvec_ctor(1, <<>>).v, args)
        /\ \A k \in 1..Len(Unfailing(v, OnlyFallback)) :
               LET e == Unfailing(v, OnlyFallback)[k]
               IN  e.a1.ty = e.a2.ty => e.a1.val < e.a2.val

====
